---- MODULE Spec2Model ----
(***************************************************************************)
(* Golf Shot DB (src/app.py): the three tables rounds, shots and holes of  *)
(* init_db and the Flask handlers save_shot, save_hole, save_round,        *)
(* export_unsynced, mark_synced and health_check that read and write them. *)
(* Every handler runs its statements on one connection and commits once,   *)
(* so one handler is one action; the export, which only reads, is also     *)
(* given statement by statement for the calls that run beside it.          *)
(***************************************************************************)
EXTENDS Integers, Sequences, FiniteSets, TLC

----------------------------------------------------------------------------
(* Bounds of the model and the sample values requests are built from.      *)

\* round identifiers the clients use: 1..MaxRound
MaxRound == 2
\* INSERTs into shots and holes that reach the database (each draws a value
\* from its table's sequence, whether or not the row is then accepted)
MaxInserts == 2
\* wall-clock readings: 1..MaxTime
MaxTime == 2

\* Python None / SQL NULL in an integer or timestamp position
NULL == 0 - 1

RoundIds == 1..MaxRound
Times == 1..MaxTime

----------------------------------------------------------------------------
(* Request bodies: a JSON object is a function from its keys to its values *)

\* dict[key] present?
Has(data, k) == k \in DOMAIN data

\* dict.get(key, default)
Get(data, k, default) == IF Has(data, k) THEN data[k] ELSE default

\* the JSON object with the keys of K left out
Without(data, K) == [k \in (DOMAIN data) \ K |-> data[k]]

----------------------------------------------------------------------------
(* The database: the tables of init_db and the two SERIAL sequences.       *)

VARIABLES
    rounds,             \* table rounds: a set of rows
    shots,              \* table shots: a set of rows
    holes,              \* table holes: a set of rows
    shots_shot_id_seq,  \* next value of the sequence behind shots.shot_id
    holes_hole_id_seq,  \* next value of the sequence behind holes.hole_id
    last,               \* the call made last and the response it was given
    conn,               \* the connection the call made last took from
                        \* get_db_connection: "none", "closed" or "open"
    exp                 \* an export running beside other calls: its position,
                        \* the rows it has fetched, the rounds touched meanwhile

vars == <<rounds, shots, holes, shots_shot_id_seq, holes_hole_id_seq, last, conn, exp>>

\* CREATE TABLE rounds: a freshly inserted row; synced_to_local and created_at
\* are not in save_round's column list and take their column defaults
\* (total_score, weather and notes are written by no handler and stay NULL)
NewRound(id, date, name, th, ts, dbnow) ==
    [round_id |-> id, date |-> date, course_name |-> name, total_holes |-> th,
     total_shots |-> ts, synced_to_local |-> FALSE, created_at |-> dbnow]

\* CREATE TABLE shots: a freshly inserted row (elevation_change, wind_speed
\* and wind_direction are written by no handler and stay NULL)
NewShot(id, rid, hole, num, club, type, lat, lon, acc, dist, ts) ==
    [shot_id |-> id, round_id |-> rid, hole |-> hole, shot_number |-> num,
     club |-> club, shot_type |-> type, latitude |-> lat, longitude |-> lon,
     accuracy |-> acc, distance |-> dist, timestamp |-> ts]

\* CREATE TABLE holes: a freshly inserted row (par, fairway_hit,
\* green_in_regulation and putts are written by no handler and stay NULL)
NewHole(id, rid, num, score, notes) ==
    [hole_id |-> id, round_id |-> rid, hole_number |-> num, score |-> score,
     notes |-> notes]

\* a row of rounds has this round_id
RoundExists(tbl, rid) == \E r \in tbl : r.round_id = rid

\* shots and holes without their foreign key: any round_id may be stored
ForeignKey_None(tbl, rid) == TRUE

\* FOREIGN KEY (round_id) REFERENCES rounds (round_id): the row may be stored
ForeignKey(tbl, rid) == RoundExists(tbl, rid)

\* rounds.round_id without its key: no insert ever conflicts
Conflict_Never(tbl, id) == FALSE

\* round_id BIGINT PRIMARY KEY: the row to insert conflicts with a stored one
Conflict(tbl, id) == RoundExists(tbl, id)

\* data[k] raises KeyError for one of the keys
KeyError(data, keys) == keys \ DOMAIN data # {}

\* the response of an except branch that returns without its ", 500"
Response_Status200(op, rid, ok, err, ret, data) ==
    [op |-> op, round_id |-> rid, ok |-> ok, status |-> 200,
     error |-> err, ret |-> ret, data |-> data]

\* the response of a call, with the call it answers
Response(op, rid, ok, err, ret, data) ==
    [op |-> op, round_id |-> rid, ok |-> ok, status |-> IF ok THEN 200 ELSE 500,
     error |-> err, ret |-> ret, data |-> data]

\* no export is between its first statement and its return
Idle == [pc |-> "idle", todo |-> <<>>, shots |-> <<>>, result |-> <<>>, touched |-> {}]

\* the sequence values drawn so far
Inserts == (shots_shot_id_seq - 1) + (holes_hole_id_seq - 1)

Init ==
    /\ rounds = {}
    /\ shots = {}
    /\ holes = {}
    /\ shots_shot_id_seq = 1
    /\ holes_hole_id_seq = 1
    /\ last = Response("init", NULL, TRUE, "", NULL, <<>>)
    /\ conn = "none"
    /\ exp = Idle

----------------------------------------------------------------------------
(* Statements                                                              *)

\* a call that changes nothing in the database and is answered by resp
Answer(resp) ==
    /\ last' = resp
    /\ UNCHANGED <<rounds, shots, holes, shots_shot_id_seq, holes_hole_id_seq>>

\* get_db_connection() raises: the call is answered from the except branch
\* and has no connection
Unreachable(op, rid, err) ==
    /\ Answer(Response(op, rid, FALSE, err, NULL, <<>>))
    /\ conn' = "none"

\* the except branch answering success
Failed_Swallowed(op, rid, err) ==
    /\ Answer(Response(op, rid, TRUE, "", NULL, <<>>))
    /\ conn' = "open"

\* a call that has its connection and fails before any statement has changed
\* anything: the except branch returns, conn.close() is not reached
Failed(op, rid, err) ==
    /\ Answer(Response(op, rid, FALSE, err, NULL, <<>>))
    /\ conn' = "open"

\* the upsert as a delete of the stored row and an insert of the new one
UpsertRound_Replace(tbl, id, date, name, th, ts, dbnow) ==
    {r \in tbl : r.round_id # id} \cup {NewRound(id, date, name, th, ts, dbnow)}

\* the upsert sending an updated round to the next export again:
\* DO UPDATE SET ..., synced_to_local = FALSE
UpsertRound_Resync(tbl, id, date, name, th, ts, dbnow) ==
    IF Conflict(tbl, id)
    THEN {IF r.round_id = id
          THEN [r EXCEPT !.course_name = name, !.total_holes = th,
                         !.total_shots = ts, !.date = date,
                         !.synced_to_local = FALSE]
          ELSE r : r \in tbl}
    ELSE tbl \cup {NewRound(id, date, name, th, ts, dbnow)}

\* the upsert keeping a stored value where the request brings none:
\* DO UPDATE SET total_holes = COALESCE(EXCLUDED.total_holes, rounds.total_holes)
\* and so on, an empty course_name counting as none
UpsertRound_Merge(tbl, id, date, name, th, ts, dbnow) ==
    IF Conflict(tbl, id)
    THEN {IF r.round_id = id
          THEN [r EXCEPT !.course_name = IF name = "" THEN @ ELSE name,
                         !.total_holes = IF th = NULL THEN @ ELSE th,
                         !.total_shots = IF ts = NULL THEN @ ELSE ts,
                         !.date = date]
          ELSE r : r \in tbl}
    ELSE tbl \cup {NewRound(id, date, name, th, ts, dbnow)}

\* INSERT INTO rounds ... ON CONFLICT (round_id) DO UPDATE SET course_name,
\* total_holes, total_shots, date = EXCLUDED.*: the table afterwards
UpsertRound(tbl, id, date, name, th, ts, dbnow) ==
    IF Conflict(tbl, id)
    THEN {IF r.round_id = id
          THEN [r EXCEPT !.course_name = name, !.total_holes = th,
                         !.total_shots = ts, !.date = date]
          ELSE r : r \in tbl}
    ELSE tbl \cup {NewRound(id, date, name, th, ts, dbnow)}

\* the insert skipping a shot whose (round_id, hole, shot_number) is stored
InsertShot_Dedup(tbl, row) ==
    IF \E s \in tbl : /\ s.round_id = row.round_id /\ s.hole = row.hole
                       /\ s.shot_number = row.shot_number
    THEN tbl ELSE tbl \cup {row}

\* INSERT INTO shots ... RETURNING shot_id: the table afterwards
InsertShot(tbl, row) == tbl \cup {row}

\* the insert replacing the stored score of the same (round_id, hole_number)
InsertHole_Replace(tbl, row) ==
    {h \in tbl : ~(h.round_id = row.round_id /\ h.hole_number = row.hole_number)}
        \cup {row}

\* INSERT INTO holes ...: the table afterwards
InsertHole(tbl, row) == tbl \cup {row}

\* the update flipping the flag instead of setting it
UpdateSynced_Toggle(tbl, id) ==
    {IF r.round_id = id THEN [r EXCEPT !.synced_to_local = ~r.synced_to_local] ELSE r :
        r \in tbl}

\* the update creating the row it does not find
UpdateSynced_Upsert(tbl, id) ==
    IF \E r \in tbl : r.round_id = id
    THEN {IF r.round_id = id THEN [r EXCEPT !.synced_to_local = TRUE] ELSE r : r \in tbl}
    ELSE tbl \cup {[round_id |-> id, date |-> 1, course_name |-> "", total_holes |-> NULL,
                    total_shots |-> NULL, synced_to_local |-> TRUE, created_at |-> 1]}

\* UPDATE rounds SET synced_to_local = TRUE WHERE round_id = id
UpdateSynced(tbl, id) ==
    {IF r.round_id = id THEN [r EXCEPT !.synced_to_local = TRUE] ELSE r : r \in tbl}

----------------------------------------------------------------------------
(* The round identifier of /api/mark-synced/<round_id> is the text of the  *)
(* path segment; the database reads it as a BIGINT when it compares it     *)
(* with rounds.round_id.                                                   *)

Digits == <<"0", "1", "2", "3", "4", "5", "6", "7", "8", "9">>

IsDigit(c) == \E i \in 1..Len(Digits) : Digits[i] = c

DigitValue(c) == (CHOOSE i \in 1..Len(Digits) : Digits[i] = c) - 1

\* the text is accepted as a BIGINT literal
IsBigint(text) == Len(text) > 0 /\ \A i \in 1..Len(text) : IsDigit(text[i])

\* the BIGINT a literal of digits denotes
RECURSIVE BigintValue(_)
BigintValue(text) ==
    IF Len(text) = 0 THEN 0
    ELSE 10 * BigintValue(SubSeq(text, 1, Len(text) - 1)) + DigitValue(text[Len(text)])

\* the decimal text of a round identifier, as the client puts it in the URL
RECURSIVE PathOf(_)
PathOf(n) ==
    IF n < 10 THEN <<Digits[n + 1]>> ELSE PathOf(n \div 10) \o <<Digits[(n % 10) + 1]>>

----------------------------------------------------------------------------
(* ORDER BY: every sequence a sorted SELECT may return; rows that compare  *)
(* equal come in any order.                                                *)

Orderings(S) ==
    {f \in [1..Cardinality(S) -> S] : \A i, j \in 1..Cardinality(S) : i # j => f[i] # f[j]}

\* before: the pairs <<a, b>> of rows the ORDER BY clause lets a precede b
OrderBy(S, before) ==
    {s \in Orderings(S) : \A i, j \in 1..Cardinality(S) : i < j => <<s[i], s[j]>> \in before}

\* ORDER BY date, ascending
ByDateDesc_Asc(a, b) == a.date <= b.date

\* ORDER BY date DESC
ByDateDesc(a, b) == a.date >= b.date

\* ORDER BY shot_number, hole
ByHoleShot_ShotFirst(a, b) ==
    a.shot_number < b.shot_number \/ (a.shot_number = b.shot_number /\ a.hole <= b.hole)

\* ORDER BY hole, shot_number
ByHoleShot(a, b) ==
    a.hole < b.hole \/ (a.hole = b.hole /\ a.shot_number <= b.shot_number)

\* ORDER BY hole_number
ByHoleNumber(a, b) == a.hole_number <= b.hole_number

\* the select without its WHERE clause
SelectUnsynced_All(tbl) == OrderBy(tbl, {p \in tbl \X tbl : ByDateDesc(p[1], p[2])})

\* SELECT * FROM rounds WHERE synced_to_local = FALSE ORDER BY date DESC
SelectUnsynced(tbl) ==
    LET rows == {r \in tbl : r.synced_to_local = FALSE}
    IN  OrderBy(rows, {p \in rows \X rows : ByDateDesc(p[1], p[2])})

\* SELECT * FROM shots WHERE round_id = %s ORDER BY hole, shot_number
SelectShots(tbl, rid) ==
    LET rows == {s \in tbl : s.round_id = rid}
    IN  OrderBy(rows, {p \in rows \X rows : ByHoleShot(p[1], p[2])})

\* the select of the holes without its WHERE clause
SelectHoles_AllRounds(tbl, rid) ==
    OrderBy(tbl, {p \in tbl \X tbl : ByHoleNumber(p[1], p[2])})

\* SELECT * FROM holes WHERE round_id = %s ORDER BY hole_number
SelectHoles(tbl, rid) ==
    LET rows == {h \in tbl : h.round_id = rid}
    IN  OrderBy(rows, {p \in rows \X rows : ByHoleNumber(p[1], p[2])})

\* the loop over the fetched rounds: each with its shots and its holes
RECURSIVE Expand(_, _, _)
Expand(rs, shotTbl, holeTbl) ==
    IF rs = <<>> THEN {<<>>}
    ELSE {<<[round |-> Head(rs), shots |-> ss, holes |-> hs]>> \o rest :
            ss \in SelectShots(shotTbl, Head(rs).round_id),
            hs \in SelectHoles(holeTbl, Head(rs).round_id),
            rest \in Expand(Tail(rs), shotTbl, holeTbl)}

\* every 'data' list export_unsynced may return from the given tables
ExportData(roundTbl, shotTbl, holeTbl) ==
    UNION {Expand(rs, shotTbl, holeTbl) : rs \in SelectUnsynced(roundTbl)}

----------------------------------------------------------------------------
(* The requests the clients send                                           *)

\* the keys save_shot reads with data[...]
ShotRequired ==
    {"round_id", "hole", "shot_number", "club", "shot_type", "latitude", "longitude"}

\* the keys save_hole reads with data[...]
HoleRequired == {"round_id", "hole", "score"}

\* the keys save_round reads with data.get(...)
RoundOptional == {"date", "course_name", "total_holes", "total_shots"}

\* a shot as recordShot builds it (coordinates in whole degrees)
ShotBody(rid, hole, num) ==
    [round_id |-> rid, hole |-> hole, shot_number |-> num, club |-> "Driver",
     shot_type |-> "Tee", latitude |-> 36, longitude |-> 0 - 121,
     accuracy |-> 5, distance |-> 240, timestamp |-> 1]

\* (hole, shot_number) of the shots sent
ShotSamples == {<<1, 2>>, <<2, 1>>}

\* the shots sent: complete ones, one without its optional keys, one short of
\* each required key in turn, one with a null
ShotBodies ==
    LET full == {ShotBody(r, p[1], p[2]) : r \in RoundIds, p \in ShotSamples}
        one == ShotBody(1, 1, 1)
    IN  full
        \cup {Without(one, {"accuracy", "distance", "timestamp"})}
        \cup {Without(one, {k}) : k \in ShotRequired}
        \cup {[one EXCEPT !.hole = NULL]}

\* a hole score as saveHoleScore sends it
HoleBody(rid, hole) == [round_id |-> rid, hole |-> hole, score |-> 4, notes |-> "lip out"]

\* the hole scores sent: complete ones, one without notes, one short of each
\* required key in turn, one with a null
HoleBodies ==
    LET full == {HoleBody(r, h) : r \in RoundIds, h \in {1, 2}}
        one == HoleBody(1, 1)
    IN  full
        \cup {Without(one, {"notes"})}
        \cup {Without(one, {k}) : k \in HoleRequired}
        \cup {[one EXCEPT !.score = NULL]}

\* a round summary as saveRoundSummary sends it
RoundBody(rid) ==
    [round_id |-> rid, date |-> 1, course_name |-> "Pebble Creek",
     total_holes |-> 0, total_shots |-> 0]

\* the round summaries sent: complete ones, ones with the identifier alone,
\* one without identifier, one with a null date
RoundBodies ==
    LET full == {RoundBody(r) : r \in RoundIds}
    IN  full
        \cup {Without(b, RoundOptional) : b \in full}
        \cup {Without(RoundBody(1), {"round_id"})}
        \cup {[RoundBody(1) EXCEPT !.date = NULL]}

\* the path segments mark_synced is called with
PathIds == {PathOf(r) : r \in RoundIds} \cup {<<"x">>, <<"1", "x">>}

----------------------------------------------------------------------------
(* The handlers. up: get_db_connection() returned a connection.            *)

\* POST /api/shot
save_shot(data, now, up) ==
    LET rid == Get(data, "round_id", NULL) IN
    IF ~up THEN Unreachable("save_shot", rid, "OperationalError")
    ELSE IF KeyError(data, ShotRequired) THEN Failed("save_shot", rid, "KeyError")
    ELSE
        LET id == shots_shot_id_seq
            row == NewShot(id, data["round_id"], data["hole"], data["shot_number"],
                           data["club"], data["shot_type"], data["latitude"],
                           data["longitude"], Get(data, "accuracy", NULL),
                           Get(data, "distance", NULL), Get(data, "timestamp", now))
            err == IF \E k \in ShotRequired \ {"club", "shot_type"} : data[k] = NULL
                   THEN "NotNullViolation"
                   ELSE IF ~ForeignKey(rounds, row.round_id)
                   THEN "ForeignKeyViolation" ELSE ""
        IN  /\ Inserts < MaxInserts
            /\ shots_shot_id_seq' = shots_shot_id_seq + 1
            /\ shots' = IF err = "" THEN InsertShot(shots, row) ELSE shots
            /\ last' = IF err = "" THEN Response("save_shot", rid, TRUE, "", id, <<>>)
                       ELSE Response("save_shot", rid, FALSE, err, NULL, <<>>)
            /\ conn' = IF err = "" THEN "closed" ELSE "open"
            /\ UNCHANGED <<rounds, holes, holes_hole_id_seq>>

\* POST /api/hole
save_hole(data, up) ==
    LET rid == Get(data, "round_id", NULL) IN
    IF ~up THEN Unreachable("save_hole", rid, "OperationalError")
    ELSE IF KeyError(data, HoleRequired) THEN Failed("save_hole", rid, "KeyError")
    ELSE
        LET id == holes_hole_id_seq
            row == NewHole(id, data["round_id"], data["hole"], data["score"],
                           Get(data, "notes", ""))
            err == IF \E k \in HoleRequired : data[k] = NULL
                   THEN "NotNullViolation"
                   ELSE IF ~ForeignKey(rounds, row.round_id)
                   THEN "ForeignKeyViolation" ELSE ""
        IN  /\ Inserts < MaxInserts
            /\ holes_hole_id_seq' = holes_hole_id_seq + 1
            /\ holes' = IF err = "" THEN InsertHole(holes, row) ELSE holes
            /\ last' = Response("save_hole", rid, err = "", err, NULL, <<>>)
            /\ conn' = IF err = "" THEN "closed" ELSE "open"
            /\ UNCHANGED <<rounds, shots, shots_shot_id_seq>>

\* POST /api/round
save_round(data, now, dbnow, up) ==
    LET rid == Get(data, "round_id", NULL) IN
    IF ~up THEN Unreachable("save_round", rid, "OperationalError")
    ELSE IF KeyError(data, {"round_id"}) THEN Failed("save_round", rid, "KeyError")
    ELSE IF Get(data, "date", now) = NULL
    THEN Failed("save_round", rid, "NotNullViolation")
    ELSE
        /\ rounds' = UpsertRound(rounds, data["round_id"], Get(data, "date", now),
                                 Get(data, "course_name", ""),
                                 Get(data, "total_holes", NULL),
                                 Get(data, "total_shots", NULL), dbnow)
        /\ last' = Response("save_round", rid, TRUE, "", NULL, <<>>)
        /\ conn' = "closed"
        /\ UNCHANGED <<shots, holes, shots_shot_id_seq, holes_hole_id_seq>>

\* the export marking the rounds it returns as synced
export_unsynced_Marking(up) ==
    IF ~up THEN Unreachable("export_unsynced", NULL, "OperationalError")
    ELSE \E data \in ExportData(rounds, shots, holes) :
            /\ last' = Response("export_unsynced", NULL, TRUE, "", NULL, data)
            /\ rounds' = {[r EXCEPT !.synced_to_local = TRUE] : r \in rounds}
            /\ conn' = "closed"
            /\ UNCHANGED <<shots, holes, shots_shot_id_seq, holes_hole_id_seq>>

\* GET /api/export/unsynced
export_unsynced(up) ==
    IF ~up THEN Unreachable("export_unsynced", NULL, "OperationalError")
    ELSE \E data \in ExportData(rounds, shots, holes) :
            /\ Answer(Response("export_unsynced", NULL, TRUE, "", NULL, data))
            /\ conn' = "closed"

\* POST /api/mark-synced/<round_id>
mark_synced(round_id, up) ==
    IF ~up THEN Unreachable("mark_synced", NULL, "OperationalError")
    ELSE IF ~IsBigint(round_id)
    THEN Failed("mark_synced", NULL, "InvalidTextRepresentation")
    ELSE
        /\ rounds' = UpdateSynced(rounds, BigintValue(round_id))
        /\ last' = Response("mark_synced", BigintValue(round_id), TRUE, "", NULL, <<>>)
        /\ conn' = "closed"
        /\ UNCHANGED <<shots, holes, shots_shot_id_seq, holes_hole_id_seq>>

\* GET /health: the except branch answers {status: unhealthy, database:
\* disconnected}, a body without an error message
health_check(up) ==
    IF ~up THEN Unreachable("health_check", NULL, "")
    ELSE /\ Answer(Response("health_check", NULL, TRUE, "", NULL, <<>>))
         /\ conn' = "closed"

\* the interpreter finalises the connection object a returned handler left
\* unclosed (at the return itself where objects are reference counted, at
\* some later collection elsewhere): the connection closes and the server
\* rolls its open transaction back
Finalize ==
    /\ conn = "open"
    /\ conn' = "closed"
    /\ UNCHANGED <<rounds, shots, holes, shots_shot_id_seq, holes_hole_id_seq, last>>

----------------------------------------------------------------------------
(* The service with its storage reachable: any call at any time. One       *)
(* reading of the clock serves datetime.now() and CURRENT_TIMESTAMP.       *)

Next ==
    \/ \E data \in ShotBodies, now \in Times : save_shot(data, now, TRUE) /\ UNCHANGED exp
    \/ \E data \in HoleBodies : save_hole(data, TRUE) /\ UNCHANGED exp
    \/ \E data \in RoundBodies, now \in Times :
            save_round(data, now, now, TRUE) /\ UNCHANGED exp
    \/ export_unsynced(TRUE) /\ UNCHANGED exp
    \/ \E round_id \in PathIds : mark_synced(round_id, TRUE) /\ UNCHANGED exp
    \/ health_check(TRUE) /\ UNCHANGED exp

Spec == Init /\ [][Next]_vars

----------------------------------------------------------------------------
(* The service in its environment: get_db_connection() may fail in any     *)
(* call, and a connection left unclosed may be finalised at any time. The  *)
(* clock stands at its first reading.                                      *)

NextEnv ==
    \/ \E data \in ShotBodies, up \in BOOLEAN : save_shot(data, 1, up) /\ UNCHANGED exp
    \/ \E data \in HoleBodies, up \in BOOLEAN : save_hole(data, up) /\ UNCHANGED exp
    \/ \E data \in RoundBodies, up \in BOOLEAN : save_round(data, 1, 1, up) /\ UNCHANGED exp
    \/ \E up \in BOOLEAN : export_unsynced(up) /\ UNCHANGED exp
    \/ \E round_id \in PathIds, up \in BOOLEAN : mark_synced(round_id, up) /\ UNCHANGED exp
    \/ \E up \in BOOLEAN : health_check(up) /\ UNCHANGED exp
    \/ Finalize /\ UNCHANGED exp

SpecEnv == Init /\ [][NextEnv]_vars

----------------------------------------------------------------------------
(* The export beside other calls. The export's connection is in the        *)
(* default isolation level, READ COMMITTED: each of its SELECTs reads what *)
(* is committed when it runs. Every other handler commits once, so it      *)
(* takes effect in one step between two statements of the export.          *)

\* the tables and counters no statement of the export writes
Database == <<rounds, shots, holes, shots_shot_id_seq, holes_hole_id_seq>>

\* SELECT * FROM rounds WHERE synced_to_local = FALSE ...; rounds = fetchall()
export_unsynced_rounds ==
    /\ exp.pc = "idle"
    /\ \E rs \in SelectUnsynced(rounds) :
        exp' = [Idle EXCEPT !.pc = IF rs = <<>> THEN "return" ELSE "shots", !.todo = rs]
    /\ UNCHANGED <<Database, last, conn>>

\* for round_data in rounds: SELECT * FROM shots ...; shots = fetchall()
export_unsynced_shots ==
    /\ exp.pc = "shots"
    /\ \E ss \in SelectShots(shots, Head(exp.todo).round_id) :
        exp' = [exp EXCEPT !.pc = "holes", !.shots = ss]
    /\ UNCHANGED <<Database, last, conn>>

\* SELECT * FROM holes ...; holes = fetchall(); result.append(...)
export_unsynced_holes ==
    /\ exp.pc = "holes"
    /\ \E hs \in SelectHoles(holes, Head(exp.todo).round_id) :
        exp' = [exp EXCEPT
                  !.pc = IF Tail(exp.todo) = <<>> THEN "return" ELSE "shots",
                  !.todo = Tail(exp.todo),
                  !.shots = <<>>,
                  !.result = Append(exp.result, [round |-> Head(exp.todo),
                                                 shots |-> exp.shots, holes |-> hs])]
    /\ UNCHANGED <<Database, last, conn>>

\* cur.close(); conn.close(); return jsonify({'success': True, 'data': result})
export_unsynced_return ==
    /\ exp.pc = "return"
    /\ last' = Response("export_unsynced", NULL, TRUE, "", NULL, exp.result)
    /\ conn' = "closed"
    /\ exp' = Idle
    /\ UNCHANGED Database

\* a call naming this round runs; it is noted if an export is under way
Touch(rid) ==
    exp' = IF exp.pc = "idle" THEN exp ELSE [exp EXCEPT !.touched = @ \cup {rid}]

\* the calls made beside the export: one shot and one hole score per round,
\* each round's complete summary and its identifier alone, each round's path
ConcShotBodies == {ShotBody(r, 1, 2) : r \in RoundIds}
ConcHoleBodies == {HoleBody(r, 1) : r \in RoundIds}
ConcRoundBodies ==
    {RoundBody(r) : r \in RoundIds} \cup {Without(RoundBody(r), RoundOptional) : r \in RoundIds}
ConcPathIds == {PathOf(r) : r \in RoundIds}

NextConc ==
    \/ export_unsynced_rounds
    \/ export_unsynced_shots
    \/ export_unsynced_holes
    \/ export_unsynced_return
    \/ \E data \in ConcShotBodies : save_shot(data, 1, TRUE) /\ Touch(data["round_id"])
    \/ \E data \in ConcHoleBodies : save_hole(data, TRUE) /\ Touch(data["round_id"])
    \/ \E data \in ConcRoundBodies : save_round(data, 1, 1, TRUE) /\ Touch(data["round_id"])
    \/ \E round_id \in ConcPathIds :
            mark_synced(round_id, TRUE) /\ Touch(BigintValue(round_id))

SpecConc == Init /\ [][NextConc]_vars

----------------------------------------------------------------------------
(* Round summaries only: upserts that bring any part of a summary, and     *)
(* mark-synced calls, with the storage reachable.                          *)

\* a round summary sent after nine holes
RoundBodyLater(rid) ==
    [round_id |-> rid, date |-> 2, course_name |-> "Dunes",
     total_holes |-> 9, total_shots |-> 40]

\* the summaries sent: each of the two complete, with one of its optional
\* keys left out, and with all of them left out
RoundBodiesPartial ==
    {Without(b, K) : b \in {RoundBody(r) : r \in RoundIds}
                         \cup {RoundBodyLater(r) : r \in RoundIds},
                     K \in {{}, RoundOptional} \cup {{k} : k \in RoundOptional}}

NextUpsert ==
    \/ \E data \in RoundBodiesPartial, now \in Times :
            save_round(data, now, now, TRUE) /\ UNCHANGED exp
    \/ \E round_id \in ConcPathIds : mark_synced(round_id, TRUE) /\ UNCHANGED exp

SpecUpsert == Init /\ [][NextUpsert]_vars

----------------------------------------------------------------------------
(* Properties                                                              *)

\* the rows of rounds with this round_id
RoundRows(tbl, id) == {r \in tbl : r.round_id = id}

\* the rows of rounds not yet marked synced
Unsynced(tbl) == {r \in tbl : ~r.synced_to_local}

\* the rounds a 'data' list reports
Reported(data) == {data[i].round : i \in 1..Len(data)}

\* C1: there is at most one round row per round_id in every state; a round
\* upsert of a stored round_id leaves the number of round rows unchanged, an
\* upsert of an unseen round_id adds exactly one row, and afterwards the row
\* of that round_id carries the date, course_name, total_holes and total_shots
\* the request gave.
C1_UpsertOneRowPerRound ==
    [][/\ \A r1, r2 \in rounds' : r1.round_id = r2.round_id => r1 = r2
       /\ (last'.op = "save_round" /\ last'.ok) =>
            \A data \in RoundBodies, now \in Times :
            save_round(data, now, now, TRUE) =>
                LET id == data["round_id"] IN
                /\ Cardinality(rounds') =
                     IF RoundRows(rounds, id) # {} THEN Cardinality(rounds)
                     ELSE Cardinality(rounds) + 1
                /\ Cardinality(RoundRows(rounds', id)) = 1
                /\ \A r \in RoundRows(rounds', id) :
                     \A k \in RoundOptional \cap DOMAIN data : r[k] = data[k]
      ]_vars

\* C1 witness: a round that was stored before (it is marked synced) has just
\* been upserted again with a complete summary, beside another round.
C1_Witness ==
    /\ last.op = "save_round" /\ last.ok
    /\ Cardinality(rounds) = 2
    /\ \E r \in rounds :
        /\ r.round_id = last.round_id /\ r.synced_to_local
        /\ r.course_name = "Pebble Creek" /\ r.created_at # r.date

\* C2: a round upsert of a stored round_id changes neither that round's
\* synced_to_local nor its created_at, and changes no other round row, no shot
\* row and no hole row.
C2_UpsertFrame ==
    [][(last'.op = "save_round" /\ last'.ok /\ RoundRows(rounds, last'.round_id) # {}) =>
        \A data \in RoundBodies, now \in Times :
        save_round(data, now, now, TRUE) =>
            LET id == data["round_id"] IN
            /\ \A q \in RoundRows(rounds', id) : \E r \in RoundRows(rounds, id) :
                 q.synced_to_local = r.synced_to_local /\ q.created_at = r.created_at
            /\ rounds' \ RoundRows(rounds', id) = rounds \ RoundRows(rounds, id)
            /\ shots' = shots
            /\ holes' = holes
      ]_vars

\* C2 witness: a round marked synced and holding a shot and a hole has just
\* been upserted again at a time other than its creation, beside another round.
C2_Witness ==
    /\ last.op = "save_round" /\ last.ok
    /\ Cardinality(rounds) = 2
    /\ \E r \in rounds :
        /\ r.round_id = last.round_id /\ r.synced_to_local
        /\ r.course_name = "" /\ r.created_at # r.date
    /\ shots # {}
    /\ holes # {}

\* C3: the rounds export-unsynced returns are exactly the stored rounds whose
\* synced_to_local is false, each once: this holds of the list the last
\* export returned and of every list an export would return now.
C3_ExportExactlyUnsynced ==
    \A data \in ExportData(rounds, shots, holes)
                \cup (IF last.op = "export_unsynced" /\ last.ok THEN {last.data} ELSE {}) :
        /\ Reported(data) = Unsynced(rounds)
        /\ Len(data) = Cardinality(Unsynced(rounds))

\* C3 witness: an export has just returned one round while another stored
\* round, marked synced, was left out.
C3_Witness ==
    /\ last.op = "export_unsynced" /\ last.ok
    /\ Len(last.data) = 1
    /\ \E r \in rounds : r.synced_to_local

\* C4: mark-synced of a stored round succeeds and leaves the round synced; a
\* second call right after the first changes nothing; the round is in no
\* export made after it: a synced round stays stored and synced in every
\* step, and no export returns a round that is synced.
C4_MarkSyncedIdempotent ==
    [][/\ (last'.op = "mark_synced") =>
            \A round_id \in PathIds :
            (/\ mark_synced(round_id, TRUE)
             /\ IsBigint(round_id)
             /\ RoundRows(rounds, BigintValue(round_id)) # {}) =>
                LET id == BigintValue(round_id) IN
                /\ last'.ok
                /\ \A r \in RoundRows(rounds', id) : r.synced_to_local
                /\ (last.op = "mark_synced" /\ last.ok /\ last.round_id = id) =>
                     /\ rounds' = rounds /\ shots' = shots /\ holes' = holes
                     /\ last' = last
                /\ \A data \in ExportData(rounds', shots', holes') :
                     \A i \in 1..Len(data) : data[i].round.round_id # id
       /\ \A r \in rounds : r.synced_to_local =>
            /\ RoundRows(rounds', r.round_id) # {}
            /\ \A q \in RoundRows(rounds', r.round_id) : q.synced_to_local
       /\ (last'.op = "export_unsynced" /\ last'.ok) =>
            \A i \in 1..Len(last'.data) : ~last'.data[i].round.synced_to_local
      ]_vars

\* C4 witness: mark-synced has just succeeded on a stored round, which an
\* export made now leaves out while it returns another round.
C4_Witness ==
    /\ last.op = "mark_synced" /\ last.ok
    /\ \E r \in rounds : r.round_id = last.round_id /\ r.synced_to_local
    /\ \E data \in ExportData(rounds, shots, holes) : Len(data) = 1

\* C5: mark-synced of a round identifier that is not stored succeeds, creates
\* no round row, and leaves rounds, shots and holes unchanged.
C5_MarkSyncedUnknown ==
    [][(last'.op = "mark_synced") =>
        \A round_id \in PathIds :
        (/\ mark_synced(round_id, TRUE)
         /\ IsBigint(round_id)
         /\ RoundRows(rounds, BigintValue(round_id)) = {}) =>
            /\ last'.ok /\ last'.status = 200
            /\ RoundRows(rounds', BigintValue(round_id)) = {}
            /\ rounds' = rounds
            /\ shots' = shots
            /\ holes' = holes
      ]_vars

\* C5 witness: mark-synced has just succeeded for an identifier no round row
\* has, with other rows stored.
C5_Witness ==
    /\ last.op = "mark_synced" /\ last.ok
    /\ RoundRows(rounds, last.round_id) = {}
    /\ rounds # {}
    /\ shots # {}

\* C6: record-shot or record-hole with a complete body succeeds whether or not
\* its round was upserted before, and a round row with its round_id exists
\* afterwards.
C6_ImplicitRound ==
    (/\ last.op \in {"save_shot", "save_hole"}
     /\ last.round_id # NULL
     /\ last.error \notin {"KeyError", "NotNullViolation"}) =>
        /\ last.ok
        /\ RoundRows(rounds, last.round_id) # {}

\* the shots with the key (round_id, hole, shot_number) of the request
SameShot(tbl, data) ==
    {s \in tbl : /\ s.round_id = data["round_id"] /\ s.hole = data["hole"]
                 /\ s.shot_number = data["shot_number"]}

\* the holes with the key (round_id, hole) of the request
SameHole(tbl, data) ==
    {h \in tbl : h.round_id = data["round_id"] /\ h.hole_number = data["hole"]}

\* C7: every shot row and every hole row has the round_id of a stored round
\* row in every state; a record-shot or record-hole whose round_id no stored
\* round has fails with the error envelope and stores nothing.
C7_ReferentialIntegrity ==
    [][/\ \A s \in shots' : RoundRows(rounds', s.round_id) # {}
       /\ \A h \in holes' : RoundRows(rounds', h.round_id) # {}
       /\ (/\ last'.op \in {"save_shot", "save_hole"}
           /\ last'.round_id # NULL
           /\ RoundRows(rounds, last'.round_id) = {}) =>
                /\ ~last'.ok /\ last'.status = 500 /\ last'.error # ""
                /\ rounds' = rounds /\ shots' = shots /\ holes' = holes
      ]_vars

\* C7 witness: a shot for a round that is not stored has just been refused
\* while another round has a shot.
C7_Witness ==
    /\ last.op = "save_shot" /\ ~last.ok /\ last.error = "ForeignKeyViolation"
    /\ RoundRows(rounds, last.round_id) = {}
    /\ shots # {}

\* C8: a successful record-shot adds exactly one row to shots, whose shot_id
\* is the one returned and is that of no shot stored before, also when a shot
\* with the same (round_id, hole, shot_number) is stored already; a successful
\* record-hole adds exactly one row to holes, also when a hole with the same
\* (round_id, hole) is stored already.
C8_AppendNoDedup ==
    [][/\ (last'.op = "save_shot" /\ last'.ok) =>
            /\ shots \subseteq shots'
            /\ Cardinality(shots') = Cardinality(shots) + 1
            /\ \A s \in shots : s.shot_id # last'.ret
            /\ \A s \in shots' \ shots : s.shot_id = last'.ret
            /\ holes' = holes
            /\ \A data \in ShotBodies, now \in Times : save_shot(data, now, TRUE) =>
                 Cardinality(SameShot(shots', data)) = Cardinality(SameShot(shots, data)) + 1
       /\ (last'.op = "save_hole" /\ last'.ok) =>
            /\ holes \subseteq holes'
            /\ Cardinality(holes') = Cardinality(holes) + 1
            /\ shots' = shots
            /\ \A data \in HoleBodies : save_hole(data, TRUE) =>
                 Cardinality(SameHole(holes', data)) = Cardinality(SameHole(holes, data)) + 1
      ]_vars

\* C8 witness: the same shot has just been stored a second time.
C8_Witness ==
    /\ last.op = "save_shot" /\ last.ok
    /\ \E s, t \in shots :
        /\ s.shot_id # t.shot_id /\ t.shot_id = last.ret
        /\ s.round_id = t.round_id /\ s.hole = t.hole /\ s.shot_number = t.shot_number

\* C9: a record-shot whose body lacks one of round_id, hole, shot_number,
\* club, shot_type, latitude, longitude, and a record-hole whose body lacks
\* score, are answered success false with an error, and rounds, shots and
\* holes are left as they were.
C9_MissingFieldFails ==
    [][/\ (last'.op = "save_shot") =>
            \A data \in {d \in ShotBodies : ShotRequired \ DOMAIN d # {}}, now \in Times :
            save_shot(data, now, TRUE) =>
                /\ ~last'.ok /\ last'.error # ""
                /\ rounds' = rounds /\ shots' = shots /\ holes' = holes
       /\ (last'.op = "save_hole") =>
            \A data \in {d \in HoleBodies : "score" \notin DOMAIN d} :
            save_hole(data, TRUE) =>
                /\ ~last'.ok /\ last'.error # ""
                /\ rounds' = rounds /\ shots' = shots /\ holes' = holes
      ]_vars

\* C9 witness: a shot short of a required key has just been refused although
\* its round is stored.
C9_Witness ==
    /\ last.op = "save_shot" /\ ~last.ok /\ last.error = "KeyError"
    /\ last.round_id # NULL
    /\ RoundRows(rounds, last.round_id) # {}

\* C10: the rounds of the list export-unsynced returns are stored round rows
\* in the order of their date, latest first; this holds of the list the last
\* export returned and of every list an export would return now.
C10_ExportByDateDesc ==
    \A data \in ExportData(rounds, shots, holes)
                \cup (IF last.op = "export_unsynced" /\ last.ok THEN {last.data} ELSE {}) :
        /\ \A i \in 1..Len(data) : data[i].round \in rounds
        /\ \A i, j \in 1..Len(data) : i < j => data[i].round.date >= data[j].round.date

\* C10 witness: an export has just returned two rounds of different dates.
C10_Witness ==
    /\ last.op = "export_unsynced" /\ last.ok
    /\ Len(last.data) = 2
    /\ last.data[1].round.date # last.data[2].round.date

\* the elements of a list
Range(seq) == {seq[i] : i \in 1..Len(seq)}

\* C11: for every round export-unsynced returns, the nested shots are exactly
\* the stored shot rows with that round_id (each once, those with equal keys
\* included, none of another round) in the order of hole, then shot_number,
\* whatever the order they were inserted in; the nested holes are exactly the
\* stored hole rows with that round_id in the order of hole_number. This holds
\* of the list the last export returned and of every list an export would
\* return now.
C11_NestedShotsAndHoles ==
    \A data \in ExportData(rounds, shots, holes)
                \cup (IF last.op = "export_unsynced" /\ last.ok THEN {last.data} ELSE {}) :
        \A i \in 1..Len(data) :
            LET id == data[i].round.round_id
                ss == data[i].shots
                hs == data[i].holes
            IN  /\ Range(ss) = {s \in shots : s.round_id = id}
                /\ Len(ss) = Cardinality({s \in shots : s.round_id = id})
                /\ \A j, k \in 1..Len(ss) : j < k =>
                     \/ ss[j].hole < ss[k].hole
                     \/ ss[j].hole = ss[k].hole /\ ss[j].shot_number <= ss[k].shot_number
                /\ Range(hs) = {h \in holes : h.round_id = id}
                /\ Len(hs) = Cardinality({h \in holes : h.round_id = id})
                /\ \A j, k \in 1..Len(hs) : j < k => hs[j].hole_number <= hs[k].hole_number

\* C11 witness: an export has just returned a round with two shots, the one
\* inserted later (hole 1, shot 2) ahead of the one inserted first (hole 2,
\* shot 1).
C11_Witness ==
    /\ last.op = "export_unsynced" /\ last.ok
    /\ \E i \in 1..Len(last.data) :
        /\ Len(last.data[i].shots) = 2
        /\ last.data[i].shots[1].shot_id > last.data[i].shots[2].shot_id
        /\ last.data[i].shots[1].hole < last.data[i].shots[2].hole
        /\ last.data[i].shots[1].shot_number > last.data[i].shots[2].shot_number

\* C12: export-unsynced and the health check only read: after either call,
\* whether it succeeded or failed, rounds, shots and holes hold the rows they
\* held before it, every synced_to_local flag included.
C12_ReadsChangeNothing ==
    [][(last'.op \in {"export_unsynced", "health_check"}) =>
        \A up \in BOOLEAN :
        (export_unsynced(up) \/ health_check(up)) =>
            /\ rounds' = rounds
            /\ shots' = shots
            /\ holes' = holes
            /\ \A r \in rounds : \E q \in rounds' :
                 q.round_id = r.round_id /\ q.synced_to_local = r.synced_to_local
      ]_vars

\* C12 witness: an export has just failed for want of a connection, over
\* stored shots, holes and a round that is still unsynced.
C12_Witness ==
    /\ last.op = "export_unsynced" /\ ~last.ok
    /\ conn = "none"
    /\ Unsynced(rounds) # {}
    /\ shots # {}
    /\ holes # {}

\* the summary fields the upsert writes
Summary(r) == <<r.date, r.course_name, r.total_holes, r.total_shots>>

\* C13: shots and holes are append-only: in every step of every call each
\* stored shot row and each stored hole row stays stored with all its fields;
\* each stored round row stays stored under its round_id with its created_at,
\* its summary fields change only in a round upsert of that round_id, and its
\* synced_to_local changes only in a mark-synced, from false to true.
C13_AppendOnly ==
    [][/\ shots \subseteq shots'
       /\ holes \subseteq holes'
       /\ \A r \in rounds : \E q \in rounds' :
            /\ q.round_id = r.round_id
            /\ q.created_at = r.created_at
            /\ Summary(q) # Summary(r) =>
                 /\ last'.op = "save_round" /\ last'.ok /\ last'.round_id = r.round_id
                 /\ q.synced_to_local = r.synced_to_local
            /\ q.synced_to_local # r.synced_to_local =>
                 /\ last'.op = "mark_synced" /\ last'.ok /\ last'.round_id = r.round_id
                 /\ ~r.synced_to_local /\ q.synced_to_local
                 /\ Summary(q) = Summary(r)
      ]_vars

\* C13 witness: a second score for the same hole of a round has just been
\* stored beside the first, after the round was marked synced.
C13_Witness ==
    /\ last.op = "save_hole" /\ last.ok
    /\ \E h, g \in holes :
        /\ h.hole_id < g.hole_id
        /\ h.round_id = g.round_id /\ h.hole_number = g.hole_number
        /\ \E r \in rounds : r.round_id = h.round_id /\ r.synced_to_local

\* a statement of record-shot would raise: a required key is missing, a
\* required number is null, or no stored round has the round_id
ShotRaises(data) ==
    \/ ShotRequired \ DOMAIN data # {}
    \/ \E k \in {"round_id", "hole", "shot_number", "latitude", "longitude"} : data[k] = NULL
    \/ RoundRows(rounds, data["round_id"]) = {}

\* a statement of record-hole would raise
HoleRaises(data) ==
    \/ HoleRequired \ DOMAIN data # {}
    \/ \E k \in HoleRequired : data[k] = NULL
    \/ RoundRows(rounds, data["round_id"]) = {}

\* a statement of the round upsert would raise
RoundRaises(data) ==
    \/ "round_id" \notin DOMAIN data
    \/ "date" \in DOMAIN data /\ data["date"] = NULL

\* the last call failed and was answered with status 500 and an error message
ErrorEnvelope(resp) == ~resp.ok /\ resp.status = 500 /\ resp.error # ""

\* C14 as stated: every failure of every endpoint, the health check included,
\* is answered with HTTP 500 and a body containing the error message.
C14_EveryFailureHasMessage ==
    ~last.ok => ErrorEnvelope(last)

\* C14 amended: every failure of record-shot, record-hole, round upsert,
\* export-unsynced and mark-synced (no connection, a missing key, a null, an
\* unknown round, a malformed identifier) is answered with HTTP 500 and a body
\* {success: false, error} carrying the error message; a failing health check
\* is answered with HTTP 500 and a body without an error message; no failure
\* is answered as a success or with another status.
C14_FailureIs500 ==
    [][/\ (last'.op = "save_shot") =>
            \A data \in ShotBodies, now \in Times, up \in BOOLEAN :
            (save_shot(data, now, up) /\ (~up \/ ShotRaises(data))) => ErrorEnvelope(last')
       /\ (last'.op = "save_hole") =>
            \A data \in HoleBodies, up \in BOOLEAN :
            (save_hole(data, up) /\ (~up \/ HoleRaises(data))) => ErrorEnvelope(last')
       /\ (last'.op = "save_round") =>
            \A data \in RoundBodies, now \in Times, up \in BOOLEAN :
            (save_round(data, now, now, up) /\ (~up \/ RoundRaises(data))) =>
                ErrorEnvelope(last')
       /\ (last'.op = "mark_synced") =>
            \A round_id \in PathIds, up \in BOOLEAN :
            (mark_synced(round_id, up) /\ (~up \/ ~IsBigint(round_id))) =>
                ErrorEnvelope(last')
       /\ (last'.op = "export_unsynced") =>
            (export_unsynced(FALSE) => ErrorEnvelope(last'))
       /\ (last'.op = "health_check") =>
            (health_check(FALSE) =>
                ~last'.ok /\ last'.status = 500 /\ last'.error = "")
      ]_vars

\* C14 witness: the health check has just failed, answered with status 500
\* and no error message, while rounds are stored.
C14_Witness ==
    /\ last.op = "health_check" /\ ~last.ok
    /\ last.status = 500 /\ last.error = ""
    /\ rounds # {}

\* C15: once a handler has returned its response, on the success path or
\* after a failure raised by a statement (a missing key, a foreign key
\* violation, a malformed identifier), the connection the call opened is
\* released: none is left open.
C15_ConnectionReleased ==
    last.op # "init" => conn \in {"none", "closed"}

\* the list reports the round of this identifier as it is stored: listed
\* exactly when it is stored unsynced, once, with its stored row, its stored
\* shots and its stored holes
Consistent(data, id) ==
    LET at == {i \in 1..Len(data) : data[i].round.round_id = id} IN
    /\ (at # {}) = (\E r \in rounds : r.round_id = id /\ ~r.synced_to_local)
    /\ Cardinality(at) <= 1
    /\ \A i \in at :
        /\ data[i].round \in rounds
        /\ Range(data[i].shots) = {s \in shots : s.round_id = id}
        /\ Len(data[i].shots) = Cardinality({s \in shots : s.round_id = id})
        /\ Range(data[i].holes) = {h \in holes : h.round_id = id}
        /\ Len(data[i].holes) = Cardinality({h \in holes : h.round_id = id})

\* C16: when the export (the read of the round list, then per round the read
\* of its shots and the read of its holes) runs interleaved with record-shot,
\* record-hole, round-upsert and mark-synced calls, every round that none of
\* those calls names between the export's first statement and its return is
\* reported consistently by the response: it is in the result exactly when
\* it is unsynced, with its stored summary fields, shots and holes.
C16_UntouchedRoundsConsistent ==
    [][export_unsynced_return =>
        \A id \in RoundIds \ exp.touched : Consistent(last'.data, id)
      ]_vars

\* C16 witness: an export is about to return while a call touched one of its
\* rounds after it was read, so that the row it reports for that round is no
\* longer the stored one, and it reports the shot of an untouched round.
C16_Witness ==
    /\ exp.pc = "return"
    /\ \E i, j \in 1..Len(exp.result) :
        /\ exp.result[i].round.round_id \notin exp.touched
        /\ Len(exp.result[i].shots) > 0
        /\ exp.result[j].round.round_id \in exp.touched
        /\ exp.result[j].round \notin rounds

\* C17: a round upsert of a stored round_id merges nothing: each of
\* course_name, total_holes, total_shots and date of the row becomes the
\* value the request gives, and where the request leaves the field out, its
\* default (course_name the empty string, total_holes and total_shots null,
\* date the server's current time), whatever the row held before.
C17_UpsertNoMerge ==
    [][(last'.op = "save_round" /\ last'.ok /\ RoundRows(rounds, last'.round_id) # {}) =>
        \A data \in {d \in RoundBodiesPartial : d["round_id"] = last'.round_id},
           now \in Times :
        save_round(data, now, now, TRUE) =>
            \A r \in RoundRows(rounds', data["round_id"]) :
                /\ r.course_name =
                     IF "course_name" \in DOMAIN data THEN data["course_name"] ELSE ""
                /\ r.total_holes =
                     IF "total_holes" \in DOMAIN data THEN data["total_holes"] ELSE NULL
                /\ r.total_shots =
                     IF "total_shots" \in DOMAIN data THEN data["total_shots"] ELSE NULL
                /\ r.date = IF "date" \in DOMAIN data THEN data["date"] ELSE now
      ]_vars

\* C17 witness: a round stored and marked synced earlier has just been
\* upserted with a body that left out total_holes alone: the row has the
\* values given, a null total_holes, and a date that is not the time of its
\* creation.
C17_Witness ==
    /\ last.op = "save_round" /\ last.ok
    /\ \E r \in rounds :
        /\ r.round_id = last.round_id /\ r.synced_to_local
        /\ r.course_name = "Dunes" /\ r.total_shots = 40
        /\ r.total_holes = NULL
        /\ r.date = 2 /\ r.created_at = 1

\* the identifiers of the rounds marked synced
SyncedIds(tbl) == {r.round_id : r \in {q \in tbl : q.synced_to_local}}

\* C18: the sync flag is monotone: no step of any call takes a round from
\* synced back to unsynced, also not an upsert of that round or a shot or
\* hole recorded for it, and the response of an export names no round that
\* was synced when the export was made.
C18_SyncedStaysSynced ==
    [][/\ SyncedIds(rounds) \subseteq SyncedIds(rounds')
       /\ \A id \in SyncedIds(rounds) : \A q \in RoundRows(rounds', id) : q.synced_to_local
       /\ (last'.op = "export_unsynced" /\ last'.ok) =>
            \A i \in 1..Len(last'.data) :
                last'.data[i].round.round_id \notin SyncedIds(rounds)
      ]_vars

\* C18 witness: a round marked synced, and upserted again with its identifier
\* alone at a time other than its creation, has just received a shot; it is
\* still synced, and an export made now returns another round and not this
\* one.
C18_Witness ==
    /\ last.op = "save_shot" /\ last.ok
    /\ \E r \in rounds :
        /\ r.round_id = last.round_id /\ r.synced_to_local
        /\ r.course_name = "" /\ r.created_at # r.date
        /\ \A data \in ExportData(rounds, shots, holes) :
            /\ Len(data) = 1
            /\ data[1].round.round_id # r.round_id

====
